---- MODULE Spec2Model ----
(***************************************************************************)
(* Context extraction of docx2python (docx2python/docx_context.py):        *)
(* collect_numFmts, collect_rels, get_context and pull_image_files, and    *)
(* the body walker's increments of the counter table get_context builds.   *)
(*                                                                         *)
(* An archive path is a sequence of components and a component is a        *)
(* sequence of string chunks whose concatenation is the component's text:  *)
(* "word/_rels/document.xml.rels" is                                       *)
(*   << <<"word">>, <<"_rels">>, <<"document.xml", ".rels">> >>,           *)
(* so that os.path.dirname, os.path.basename, the x[-5:] == ".rels" test   *)
(* and filename + ".rels" are operations on the value, not lookups.        *)
(***************************************************************************)
EXTENDS Integers, Sequences, FiniteSets, TLC

VARIABLES zipf, pc, exc, context, heap, pulled, images, disk, incs

vars == <<zipf, pc, exc, context, heap, pulled, images, disk, incs>>

(***************************************************************************)
(* Bounds of the model.                                                    *)
(***************************************************************************)
MaxAbstractNum == 2
MaxLvl == 1
MaxNum == 2
MaxIlvl == 3
MaxRels == 2
MaxInc == 3
MaxLevel == 1

(***************************************************************************)
(* Generic helpers: Python dict as a function, bounded sequences.          *)
(***************************************************************************)
EmptyMap == [x \in {} |-> 0]

Put(d, k, v) == [x \in (DOMAIN d) \cup {k} |-> IF x = k THEN v ELSE d[x]]

SeqsUpTo(S, n) == UNION {[1..k -> S] : k \in 0..n}

(***************************************************************************)
(* Paths.                                                                  *)
(***************************************************************************)
dirname(p) == IF Len(p) = 0 THEN p ELSE SubSeq(p, 1, Len(p) - 1)

basename(p) == p[Len(p)]

EndsWithRels(p) ==
    /\ Len(p) > 0
    /\ Len(basename(p)) > 0
    /\ basename(p)[Len(basename(p))] = ".rels"

RelsDir == <<"_rels">>

RootRelsPath == <<RelsDir, <<".rels">>>>
DocumentPath == <<<<"word">>, <<"document.xml">>>>
DocRelsPath == <<<<"word">>, RelsDir, <<"document.xml", ".rels">>>>
HeaderPath == <<<<"word">>, <<"header1.xml">>>>
HeaderRelsPath == <<<<"word">>, RelsDir, <<"header1.xml", ".rels">>>>
NumberingPath == <<<<"word">>, <<"numbering.xml">>>>
Image1Path == <<<<"word">>, <<"media">>, <<"image1.png">>>>
Image2Path == <<<<"word">>, <<"media">>, <<"image2.jpg">>>>
AltImage1Path == <<<<"word">>, <<"alt">>, <<"image1.png">>>>

(***************************************************************************)
(* The archive (zipfile.ZipFile): namelist() and read(name).               *)
(***************************************************************************)
HasEntry(z, name) == \E i \in 1..Len(z.namelist) : z.namelist[i] = name

(***************************************************************************)
(* collect_numFmts.  A result is [exc, value]; exc = "KeyError" when the   *)
(* lookup abstractNumId2numFmts[abstractNumId] fails.                      *)
(***************************************************************************)
LvlFmtsButLast(lvls) == [j \in 1..(Len(lvls) - 1) |-> lvls[j].numFmt]

LvlFmts(lvls) == [j \in 1..Len(lvls) |-> lvls[j].numFmt]

RECURSIVE AbstractLoop(_, _, _)
AbstractLoop(abstractNums, i, acc) ==
    IF i > Len(abstractNums) THEN acc
    ELSE AbstractLoop(abstractNums, i + 1,
                      Put(acc, abstractNums[i].abstractNumId,
                          LvlFmts(abstractNums[i].lvls)))

abstractNumId2numFmts(xml) == AbstractLoop(xml.abstractNums, 1, EmptyMap)

NumKey(num) == num.numId

RECURSIVE NumLoop(_, _, _, _)
NumLoop(nums, table, i, acc) ==
    IF i > Len(nums) THEN [exc |-> "none", value |-> acc]
    ELSE IF nums[i].abstractNumId \notin DOMAIN table
         THEN [exc |-> "KeyError", value |-> EmptyMap]
         ELSE NumLoop(nums, table, i + 1,
                      Put(acc, NumKey(nums[i]), table[nums[i].abstractNumId]))

collect_numFmts(xml) == NumLoop(xml.nums, abstractNumId2numFmts(xml), 1, EmptyMap)

(***************************************************************************)
(* collect_rels: a dict in namelist order, [keys, val].                    *)
(***************************************************************************)
collect_rels(z) ==
    LET keys == SelectSeq(z.namelist, EndsWithRels)
    IN [keys |-> keys,
        val |-> [k \in {keys[i] : i \in 1..Len(keys)} |-> z.relsXml[k]]]

(***************************************************************************)
(* attribute_dicts helpers used by get_context and pull_image_files.       *)
(***************************************************************************)
OwningDir(d) ==
    IF Len(d) > 0 /\ d[Len(d)] = RelsDir THEN dirname(d) ELSE d

get_path(x) == OwningDir(x.dir) \o x.Target

get_path_rels(x) ==
    LET p == get_path(x)
    IN dirname(p) \o <<RelsDir>> \o <<basename(p) \o <<".rels">>>>

filter_files_by_type(files, type) ==
    SelectSeq(files, LAMBDA x : basename(x.Type) = <<type>>)

(***************************************************************************)
(* get_context, step by step.                                              *)
(***************************************************************************)
FileDirRoot(k) == <<>>

FileDir(k) == dirname(k)

Tagged(v, d) ==
    [j \in 1..Len(v) |->
        [Id |-> v[j].Id, Type |-> v[j].Type, Target |-> v[j].Target, dir |-> d]]

RECURSIVE FlattenLoop(_, _, _)
FlattenLoop(path2rels, k, files) ==
    IF k > Len(path2rels.keys) THEN files
    ELSE FlattenLoop(path2rels, k + 1,
                     files \o Tagged(path2rels.val[path2rels.keys[k]],
                                     FileDir(path2rels.keys[k])))

Flatten(path2rels) == FlattenLoop(path2rels, 1, <<>>)

WithRels(file, rels) ==
    [Id |-> file.Id, Type |-> file.Type, Target |-> file.Target,
     dir |-> file.dir, rels |-> rels]

CrossLinkOneDefaulting(file, path2rels) ==
    IF get_path_rels(file) \in DOMAIN path2rels.val
    THEN WithRels(file, path2rels.val[get_path_rels(file)])
    ELSE WithRels(file, <<>>)

CrossLinkOne(file, path2rels) ==
    IF get_path_rels(file) \in DOMAIN path2rels.val
    THEN WithRels(file, path2rels.val[get_path_rels(file)])
    ELSE file

CrossLink(files, path2rels) ==
    [i \in 1..Len(files) |-> CrossLinkOne(files[i], path2rels)]

(***************************************************************************)
(* The counter table: one defaultdict(lambda: 0) object per numId.  The    *)
(* table holds references into heap; a defaultdict is the function of the  *)
(* keys it stores, and a read of an unseen key yields default_factory.     *)
(***************************************************************************)
default_factory == 0

Read(d, l) == IF l \in DOMAIN d THEN d[l] ELSE default_factory

RECURSIVE KeyOrderLoop(_, _, _)
KeyOrderLoop(nums, i, keys) ==
    IF i > Len(nums) THEN keys
    ELSE KeyOrderLoop(nums, i + 1,
                      IF \E j \in 1..Len(keys) : keys[j] = nums[i].numId
                      THEN keys ELSE Append(keys, nums[i].numId))

KeyOrder(nums) == KeyOrderLoop(nums, 1, <<>>)

CounterRefShared(keys, x) == 1

CounterRef(keys, x) == CHOOSE r \in 1..Len(keys) : keys[r] = x

NewCounterSeeded(x) == [l \in {0} |-> 1]

NewCounter(x) == EmptyMap

NoNumbering ==
    [present |-> FALSE, numId2numFmts |-> EmptyMap, numId2count |-> EmptyMap,
     heap |-> <<>>]

NumberingFields(xml) ==
    LET r == collect_numFmts(xml)
        keys == KeyOrder(xml.nums)
        numId2count == [x \in DOMAIN r.value |-> CounterRef(keys, x)]
    IN IF r.exc = "KeyError" THEN NoNumbering
       ELSE [present |-> TRUE,
             numId2numFmts |-> r.value,
             numId2count |-> numId2count,
             heap |-> [ref \in {numId2count[x] : x \in DOMAIN numId2count} |->
                          NewCounter(CHOOSE x \in DOMAIN numId2count :
                                         numId2count[x] = ref)]]

NumberingStepEmptyOnKeyError(z) ==
    IF ~HasEntry(z, NumberingPath)
    THEN [present |-> TRUE, numId2numFmts |-> EmptyMap,
          numId2count |-> EmptyMap, heap |-> <<>>]
    ELSE NumberingFields(z.numberingXml[NumberingPath])

NumberingStep(z) ==
    IF ~HasEntry(z, NumberingPath) THEN NoNumbering
    ELSE NumberingFields(z.numberingXml[NumberingPath])

GetContext ==
    /\ pc = "start"
    /\ LET path2rels == collect_rels(zipf)
           files == CrossLink(Flatten(path2rels), path2rels)
           num == NumberingStep(zipf)
       IN /\ context' = IF num.present
                        THEN [files |-> files,
                              numId2numFmts |-> num.numId2numFmts,
                              numId2count |-> num.numId2count]
                        ELSE [files |-> files]
          /\ heap' = num.heap
    /\ pc' = "done"
    /\ exc' = "none"
    /\ UNCHANGED <<zipf, pulled, images, disk, incs>>

(***************************************************************************)
(* pull_image_files.  The dict comprehension stores the images in list     *)
(* order; zipf.read raises KeyError for a name the archive does not hold.  *)
(***************************************************************************)
StoreImageKeepFirst(acc, name, image) ==
    IF name \in DOMAIN acc THEN acc ELSE Put(acc, name, image)

StoreImage(acc, name, image) == Put(acc, name, image)

RECURSIVE ImagesLoop(_, _, _, _)
ImagesLoop(z, imgs, i, acc) ==
    IF i > Len(imgs) THEN [exc |-> "none", value |-> acc]
    ELSE IF ~HasEntry(z, get_path(imgs[i]))
         THEN [exc |-> "KeyError", value |-> EmptyMap]
         ELSE ImagesLoop(z, imgs, i + 1,
                         StoreImage(acc, basename(imgs[i].Target),
                                    z.bytes[get_path(imgs[i])]))

WriteImages(d, imgs) ==
    [exists |-> TRUE,
     files |-> [f \in (DOMAIN d.files) \cup (DOMAIN imgs) |->
                   IF f \in DOMAIN imgs THEN imgs[f] ELSE d.files[f]]]

PullImageFiles(withDirectory) ==
    /\ pc = "done"
    /\ pulled = "no"
    /\ LET r == ImagesLoop(zipf, filter_files_by_type(context.files, "image"),
                           1, EmptyMap)
       IN /\ exc' = r.exc
          /\ images' = r.value
          /\ disk' = IF r.exc = "none" /\ withDirectory
                     THEN WriteImages(disk, r.value) ELSE disk
    /\ pulled' = IF withDirectory THEN "with_directory" ELSE "without_directory"
    /\ UNCHANGED <<zipf, pc, context, heap, incs>>

(***************************************************************************)
(* The body walker: numId2count[numId][ilvl] += 1 on a numbered paragraph. *)
(* incs is the log of the increments applied so far.                       *)
(***************************************************************************)
Levels == 0..MaxLevel

Increment(numId, ilvl) ==
    /\ pc = "done"
    /\ "numId2count" \in DOMAIN context
    /\ numId \in DOMAIN context.numId2count
    /\ Len(incs) < MaxInc
    /\ heap' = [heap EXCEPT ![context.numId2count[numId]] =
                    Put(@, ilvl, Read(@, ilvl) + 1)]
    /\ incs' = Append(incs, <<numId, ilvl>>)
    /\ UNCHANGED <<zipf, pc, exc, context, pulled, images, disk>>

(***************************************************************************)
(* Input documents.                                                        *)
(***************************************************************************)
AbstractNumIds == {"0", "1"}
NumIds == {"1", "2"}
NumFmts == {"decimal", "bullet"}

NumElems == [numId : NumIds, abstractNumId : AbstractNumIds]

LvlElems == [ilvl : 0..(MaxIlvl - 1), numFmt : NumFmts]

\* lvl lists in document order 0, 1, ..., one format per level
OrderedLvls ==
    {[j \in 1..Len(f) |-> [ilvl |-> j - 1, numFmt |-> f[j]]] :
        f \in SeqsUpTo(NumFmts, MaxLvl)}

\* numbering.xml with any abstractNum and num elements, lvls in order
NumberingDocs(maxAbstractNum, maxNum) ==
    [abstractNums : SeqsUpTo([abstractNumId : AbstractNumIds, lvls : OrderedLvls],
                             maxAbstractNum),
     nums : SeqsUpTo(NumElems, maxNum)]

\* numbering.xml with one abstractNum whose lvl elements come in any order
LvlDocs(maxLvls) ==
    {[abstractNums |-> <<[abstractNumId |-> "0", lvls |-> lvls]>>,
      nums |-> <<[numId |-> "1", abstractNumId |-> "0"]>>] :
        lvls \in SeqsUpTo(LvlElems, maxLvls)}

\* numbering.xml with two fixed abstractNums and any num elements
WalkDocs(maxNum) ==
    {[abstractNums |->
          <<[abstractNumId |-> "0",
             lvls |-> <<[ilvl |-> 0, numFmt |-> "decimal"],
                        [ilvl |-> 1, numFmt |-> "bullet"]>>],
            [abstractNumId |-> "1",
             lvls |-> <<[ilvl |-> 0, numFmt |-> "bullet"]>>]>>,
      nums |-> nums] : nums \in SeqsUpTo(NumElems, maxNum)}

TypeURI(kind) ==
    <<<<"http://schemas.openxmlformats.org/officeDocument/2006/relationships">>,
      <<kind>>>>

\* Relationship elements a part's descriptor may hold: [kind, Target]
RelTargets ==
    {[kind |-> "image", Target |-> <<<<"media">>, <<"image1.png">>>>],
     [kind |-> "image", Target |-> <<<<"media">>, <<"image2.jpg">>>>],
     [kind |-> "image", Target |-> <<<<"alt">>, <<"image1.png">>>>],
     [kind |-> "image", Target |-> <<<<"media">>, <<"image3.gif">>>>],
     [kind |-> "header", Target |-> <<<<"header1.xml">>>>]}

\* The Relationship elements of one descriptor; Id j stands for "rId<j>"
Relationships(s) ==
    [j \in 1..Len(s) |->
        [Id |-> j, Type |-> TypeURI(s[j].kind), Target |-> s[j].Target]]

RootRels == Relationships(<<[kind |-> "officeDocument", Target |-> DocumentPath]>>)

Parts ==
    [p \in {DocumentPath, HeaderPath, Image1Path, Image2Path, AltImage1Path} |->
        IF p = DocumentPath THEN "document-xml"
        ELSE IF p = HeaderPath THEN "header-xml"
        ELSE IF p = Image1Path THEN "png-1"
        ELSE IF p = Image2Path THEN "jpg-2"
        ELSE "png-alt"]

PartNames == <<DocumentPath, HeaderPath, Image1Path, Image2Path, AltImage1Path>>

NoNumberingXml == [n \in {} |-> 0]

\* An archive with the descriptors descs (a sequence of [name, rels])
Archive(descs, numberingXml) ==
    [namelist |-> [i \in 1..Len(descs) |-> descs[i].name] \o PartNames \o
                  (IF NumberingPath \in DOMAIN numberingXml
                   THEN <<NumberingPath>> ELSE <<>>),
     relsXml |-> [k \in {descs[i].name : i \in 1..Len(descs)} |->
                     descs[CHOOSE i \in 1..Len(descs) : descs[i].name = k].rels],
     numberingXml |-> numberingXml,
     bytes |-> Parts]

Desc(name, rels) == [name |-> name, rels |-> rels]

WithNumbering(xml) == [n \in {NumberingPath} |-> xml]

BaseDescs ==
    <<Desc(RootRelsPath, RootRels),
      Desc(DocRelsPath,
           Relationships(<<[kind |-> "image",
                            Target |-> <<<<"media">>, <<"image1.png">>>>]>>))>>

\* The base archive without numbering.xml, and with each document of docs
NumberingArchives(docs) ==
    {Archive(BaseDescs, NoNumberingXml)} \cup
    {Archive(BaseDescs, WithNumbering(xml)) : xml \in docs}

WalkArchives(docs) == {Archive(BaseDescs, WithNumbering(xml)) : xml \in docs}

RelLists(maxRels) == {Relationships(s) : s \in SeqsUpTo(RelTargets, maxRels)}

\* document.xml.rels alone, or with header1.xml.rels before or after it
DescriptorLists(lists) ==
    {<<Desc(DocRelsPath, d)>> : d \in lists} \cup
    {<<Desc(DocRelsPath, d), Desc(HeaderRelsPath, h)>> :
        d \in lists, h \in lists} \cup
    {<<Desc(HeaderRelsPath, h), Desc(DocRelsPath, d)>> :
        d \in lists, h \in lists}

\* Archives with and without _rels/.rels, and no numbering.xml
RelsArchives(lists) ==
    {Archive(r \o ds, NoNumberingXml) :
        r \in {<<>>, <<Desc(RootRelsPath, RootRels)>>},
        ds \in DescriptorLists(lists)}

(***************************************************************************)
(* Specifications.                                                         *)
(***************************************************************************)
NoContext == [x \in {} |-> 0]

NoDisk == [exists |-> FALSE, files |-> EmptyMap]

InitWith(archives) ==
    /\ zipf \in archives
    /\ pc = "start"
    /\ exc = "none"
    /\ context = NoContext
    /\ heap = <<>>
    /\ pulled = "no"
    /\ images = EmptyMap
    /\ disk = NoDisk
    /\ incs = <<>>

InitNumbering ==
    InitWith(NumberingArchives(NumberingDocs(MaxAbstractNum, MaxNum) \cup
                               LvlDocs(MaxIlvl)))

InitRels == InitWith(RelsArchives(RelLists(MaxRels)))

InitWalk == InitWith(WalkArchives(WalkDocs(MaxNum)))

Init == InitNumbering \/ InitRels \/ InitWalk

NextNumbering == GetContext

NextRels ==
    \/ GetContext
    \/ \E withDirectory \in BOOLEAN : PullImageFiles(withDirectory)

NextWalk ==
    \/ GetContext
    \/ \E numId \in NumIds, ilvl \in Levels : Increment(numId, ilvl)

Next ==
    \/ GetContext
    \/ \E withDirectory \in BOOLEAN : PullImageFiles(withDirectory)
    \/ \E numId \in NumIds, ilvl \in Levels : Increment(numId, ilvl)

SpecNumbering == InitNumbering /\ [][NextNumbering]_vars

SpecRels == InitRels /\ [][NextRels]_vars

SpecWalk == InitWalk /\ [][NextWalk]_vars

Spec == Init /\ [][Next]_vars

(***************************************************************************)
(* Vocabulary of the properties.                                           *)
(***************************************************************************)
HasNumbering == HasEntry(zipf, NumberingPath)

Xml == zipf.numberingXml[NumberingPath]

\* some w:num names an abstractNumId that no w:abstractNum declares
Dangling(xml) ==
    \E i \in 1..Len(xml.nums) :
        \A j \in 1..Len(xml.abstractNums) :
            xml.abstractNums[j].abstractNumId # xml.nums[i].abstractNumId

IndexPresent == "numId2numFmts" \in DOMAIN context

CountersPresent == "numId2count" \in DOMAIN context

\* the last element of s whose field value is that of s[i] is s[i] itself
LastNum(nums, i) ==
    \A k \in (i + 1)..Len(nums) : nums[k].numId # nums[i].numId

LastAbstract(abstractNums, j) ==
    \A k \in (j + 1)..Len(abstractNums) :
        abstractNums[k].abstractNumId # abstractNums[j].abstractNumId

Counter(numId, ilvl) == Read(heap[context.numId2count[numId]], ilvl)

(***************************************************************************)
(* C1.  A w:num that references an undeclared abstractNumId makes          *)
(* get_context fail visibly: it never ends as it does for an archive       *)
(* without numbering.xml (no error, both numbering fields absent).         *)
(***************************************************************************)
C1_DanglingReferenceNotSwallowed ==
    (pc = "done" /\ HasNumbering /\ Dangling(Xml)) =>
        ~(/\ exc = "none"
          /\ ~IndexPresent
          /\ ~CountersPresent)

(***************************************************************************)
(* C2.  Without numbering.xml get_context returns without error and the    *)
(* context holds neither numId2numFmts nor numId2count; with a well-formed *)
(* numbering.xml it holds both, empty or not.                              *)
(***************************************************************************)
C2_NumberingFieldsPresentIffPart ==
    pc = "done" =>
        /\ ~HasNumbering => (exc = "none" /\ ~IndexPresent /\ ~CountersPresent)
        /\ (HasNumbering /\ ~Dangling(Xml)) => (IndexPresent /\ CountersPresent)

C2_Witness ==
    /\ pc = "done"
    /\ ~HasNumbering
    /\ exc = "none"
    /\ DOMAIN context = {"files"}

(***************************************************************************)
(* C3.  The numbering index has exactly the numIds of the w:num elements   *)
(* as keys, and maps each to the formats, in order, of the abstractNum its *)
(* w:num references (the last element declaring an id is the one in force).*)
(***************************************************************************)
C3_IndexDereferencesAbstract ==
    (pc = "done" /\ IndexPresent) =>
        LET nums == Xml.nums
            abstractNums == Xml.abstractNums
            index == context.numId2numFmts
        IN /\ DOMAIN index = {nums[i].numId : i \in 1..Len(nums)}
           /\ \A i \in 1..Len(nums) :
                 LastNum(nums, i) =>
                    \E j \in 1..Len(abstractNums) :
                       /\ abstractNums[j].abstractNumId = nums[i].abstractNumId
                       /\ LastAbstract(abstractNums, j)
                       /\ Len(index[nums[i].numId]) = Len(abstractNums[j].lvls)
                       /\ \A k \in 1..Len(abstractNums[j].lvls) :
                             index[nums[i].numId][k] =
                                abstractNums[j].lvls[k].numFmt

C3_Witness ==
    /\ pc = "done"
    /\ IndexPresent
    /\ \E n1 \in DOMAIN context.numId2numFmts, n2 \in DOMAIN context.numId2numFmts :
          /\ n1 # n2
          /\ Len(context.numId2numFmts[n1]) = 1
          /\ Len(context.numId2numFmts[n2]) = 1
          /\ context.numId2numFmts[n1][1] # context.numId2numFmts[n2][1]

(***************************************************************************)
(* C4.  Right after get_context the counter table has the keys of the      *)
(* numbering index and every counter reads 0 at every level.               *)
(***************************************************************************)
C4_CountersZeroedOverIndexKeys ==
    (pc = "done" /\ CountersPresent) =>
        /\ IndexPresent
        /\ DOMAIN context.numId2count = DOMAIN context.numId2numFmts
        /\ \A n \in DOMAIN context.numId2count, l \in Levels : Counter(n, l) = 0

C4_Witness ==
    /\ pc = "done"
    /\ CountersPresent
    /\ DOMAIN context.numId2count = NumIds
    /\ \A n \in NumIds : Counter(n, 0) = 0

(***************************************************************************)
(* C5.  For an abstractNum whose lvl elements carry the levels 0..n, each  *)
(* once, the resolved format list has length n+1 and its entry at index i  *)
(* is the format of the lvl element whose ilvl is i.                       *)
(***************************************************************************)
Contiguous(lvls) ==
    {lvls[k].ilvl : k \in 1..Len(lvls)} = 0..(Len(lvls) - 1)

C5_FormatIndexedByIlvl ==
    (pc = "done" /\ IndexPresent) =>
        LET nums == Xml.nums
            abstractNums == Xml.abstractNums
            index == context.numId2numFmts
        IN \A i \in 1..Len(nums), j \in 1..Len(abstractNums) :
              (/\ LastNum(nums, i)
               /\ LastAbstract(abstractNums, j)
               /\ abstractNums[j].abstractNumId = nums[i].abstractNumId
               /\ Contiguous(abstractNums[j].lvls)) =>
                  /\ Len(index[nums[i].numId]) = Len(abstractNums[j].lvls)
                  /\ \A k \in 1..Len(abstractNums[j].lvls) :
                        index[nums[i].numId][abstractNums[j].lvls[k].ilvl + 1] =
                           abstractNums[j].lvls[k].numFmt

(***************************************************************************)
(* C6.  For an archive without _rels/.rels get_context fails with an error *)
(* instead of returning a context.                                         *)
(***************************************************************************)
C6_MissingRootRelsIsFatal ==
    (pc = "done" /\ pulled = "no" /\ ~HasEntry(zipf, RootRelsPath)) =>
        exc # "none"

(***************************************************************************)
(* C7.  When pull_image_files returns, with or without a destination       *)
(* directory, its mapping has one key per base filename of the image       *)
(* records, each mapped to the archive bytes at the resolved target of the *)
(* last image record with that base filename.                              *)
(***************************************************************************)
ImageRecords ==
    {i \in 1..Len(context.files) : basename(context.files[i].Type) = <<"image">>}

C7_ImagesKeyedByBasenameLastWins ==
    (pulled # "no" /\ exc = "none") =>
        /\ DOMAIN images =
              {basename(context.files[i].Target) : i \in ImageRecords}
        /\ \A i \in ImageRecords :
              (\A k \in ImageRecords :
                  k > i => basename(context.files[k].Target) #
                           basename(context.files[i].Target)) =>
                 images[basename(context.files[i].Target)] =
                    zipf.bytes[get_path(context.files[i])]

C7_Witness ==
    /\ pulled = "with_directory"
    /\ exc = "none"
    /\ disk.exists
    /\ \E i \in ImageRecords, k \in ImageRecords :
          /\ i < k
          /\ basename(context.files[i].Target) = basename(context.files[k].Target)
          /\ zipf.bytes[get_path(context.files[i])] #
                zipf.bytes[get_path(context.files[k])]
          /\ images[basename(context.files[k].Target)] =
                zipf.bytes[get_path(context.files[k])]

(***************************************************************************)
(* C8.  The flattened list holds one record per Relationship element of    *)
(* every descriptor, in descriptor order then element order, each with the *)
(* element's attributes and a directory tag.                               *)
(***************************************************************************)
Descriptors == SelectSeq(zipf.namelist, EndsWithRels)

\* the number of records the descriptors before the k-th contribute
RECURSIVE Offset(_, _)
Offset(descriptors, k) ==
    IF k <= 1 THEN 0
    ELSE Offset(descriptors, k - 1) + Len(zipf.relsXml[descriptors[k - 1]])

\* the directory of the part a descriptor describes: a/_rels/p.rels is of a/p
ReferencingDir(descriptor) == dirname(dirname(descriptor))

FlattenedWithTag(Tag(_)) ==
    LET descriptors == Descriptors
        offset == [k \in 1..(Len(descriptors) + 1) |-> Offset(descriptors, k)]
    IN /\ Len(context.files) = offset[Len(descriptors) + 1]
       /\ \A k \in 1..Len(descriptors) :
             \A j \in 1..Len(zipf.relsXml[descriptors[k]]) :
                 LET file == context.files[offset[k] + j]
                     rel == zipf.relsXml[descriptors[k]][j]
                 IN /\ file.Id = rel.Id
                    /\ file.Type = rel.Type
                    /\ file.Target = rel.Target
                    /\ file.dir = Tag(descriptors[k])

\* C8 as stated: the tag is the directory that contains the referencing part
C8_TaggedWithReferencingDir ==
    pc = "done" => FlattenedWithTag(ReferencingDir)

\* C8 as amended: the tag is the directory of the descriptor itself
C8_TaggedWithDescriptorDir ==
    pc = "done" => FlattenedWithTag(dirname)

C8_Witness ==
    /\ pc = "done"
    /\ Len(Descriptors) = 3
    /\ Len(context.files) = 1 + 2 * MaxRels
    /\ \A i \in 1..Len(context.files) : Len(context.files[i].dir) > 0
    /\ \E i \in 1..Len(context.files) :
          context.files[i].dir = <<<<"word">>, RelsDir>>

(***************************************************************************)
(* C9.  A flattened record has a nested relationship list exactly when the *)
(* archive holds the descriptor of the record's resolved target, and the   *)
(* nested list is that descriptor's elements in order.                     *)
(***************************************************************************)
DescriptorOf(part) ==
    dirname(part) \o <<RelsDir>> \o <<basename(part) \o <<".rels">>>>

C9_NestedRelsIffDescriptor ==
    pc = "done" =>
        \A i \in 1..Len(context.files) :
            LET file == context.files[i]
                descriptor == DescriptorOf(get_path(file))
            IN /\ ("rels" \in DOMAIN file) <=> HasEntry(zipf, descriptor)
               /\ ("rels" \in DOMAIN file) => file.rels = zipf.relsXml[descriptor]

C9_Witness ==
    /\ pc = "done"
    /\ \E i \in 1..Len(context.files), k \in 1..Len(context.files) :
          /\ "rels" \in DOMAIN context.files[i]
          /\ context.files[i].Target = <<<<"header1.xml">>>>
          /\ Len(context.files[i].rels) = MaxRels
          /\ "rels" \notin DOMAIN context.files[k]

(***************************************************************************)
(* C10.  Under the walker's increments each counter (numId, ilvl) equals   *)
(* the number of increments applied to it, an increment changes no other   *)
(* counter, no counter decreases, and the context (the key set of the      *)
(* counter table and the numbering index) does not change.                 *)
(***************************************************************************)
Applied(numId, ilvl) ==
    Cardinality({i \in 1..Len(incs) : incs[i] = <<numId, ilvl>>})

CountersMatchLog ==
    (pc = "done" /\ CountersPresent) =>
        \A n \in DOMAIN context.numId2count, l \in Levels :
            Counter(n, l) = Applied(n, l)

WalkStep ==
    (pc = "done" /\ CountersPresent) =>
        /\ context' = context
        /\ \A n \in DOMAIN context.numId2count, l \in Levels :
              /\ Counter(n, l)' >= Counter(n, l)
              /\ (incs' # incs /\ incs'[Len(incs')] # <<n, l>>) =>
                    Counter(n, l)' = Counter(n, l)

C10_CountersIndependent == [] CountersMatchLog /\ [][WalkStep]_vars

C10_Witness ==
    /\ pc = "done"
    /\ CountersPresent
    /\ DOMAIN context.numId2count = NumIds
    /\ context.numId2numFmts["1"] = context.numId2numFmts["2"]
    /\ Xml.nums[1].abstractNumId = Xml.nums[2].abstractNumId
    /\ Counter("1", 0) = 2
    /\ Counter("2", 0) = 0
    /\ Counter("2", 1) = 1

====
